---- MODULE Spec2Model ----
(***************************************************************************)
(* The production build of the react-webpack project: the module graph of  *)
(* src/components (App.js and the components the README adds), the chunks  *)
(* the bundler makes of it, and optimization.splitChunks as the README     *)
(* documents it (cacheGroups defaultVendors and default, minSize,          *)
(* minChunks, maxInitialRequests, maxAsyncRequests, enforceSizeThreshold). *)
(* The repository holds the configuration and the documentation of the     *)
(* bundler's rules, not the bundler: every rule below is the README's      *)
(* sentence or the configuration's value, with its line.                   *)
(***************************************************************************)
EXTENDS Integers, FiniteSets, Sequences, TLC

VARIABLES
    entry,               \* the entry modules of the build
    lazy,                \* App.js imports ./Dynamic with import() (TRUE) or statically
    size,                \* size in bytes of each module
    minSize,             \* optimization.splitChunks.minSize
    minRemainingSize,    \* optimization.splitChunks.minRemainingSize
    minChunks,           \* cacheGroups.default.minChunks
    defaultChunks,       \* cacheGroups.default.chunks, or splitChunks.chunks without it
    maxInitialRequests,  \* optimization.splitChunks.maxInitialRequests
    maxAsyncRequests,    \* optimization.splitChunks.maxAsyncRequests
    assetRule,           \* module.rules holds the asset/resource rule for images
    define,              \* plugins: DefinePlugin with PRODUCTION true or false, or none
    phase,               \* "config", "split", "done", "failed"
    chunks,              \* chunk name -> the modules in it
    plan,                \* the names of the chunks that exist
    loads,               \* entry or import() target -> the chunks it requests
    considered,          \* the cache groups already considered
    forced,              \* chunks split because enforceSizeThreshold was reached
    failed,              \* the modules the build reported a parse error for
    appCode,             \* the if statement of AppComponent, as source and as bundled
    console,             \* what AppComponent has logged, or the error it threw
    result               \* "none" while building, "plan" once the bundles are emitted,
                         \* "error" when the build compiled with an error

vars == <<entry, lazy, size, minSize, minRemainingSize, minChunks,
          defaultChunks, maxInitialRequests, maxAsyncRequests, assetRule,
          define, phase, chunks, plan, loads, considered, forced, failed,
          appCode, console, result>>

inputs == <<entry, lazy, size, minSize, minRemainingSize, minChunks,
            defaultChunks, maxInitialRequests, maxAsyncRequests, assetRule,
            define>>

-----------------------------------------------------------------------------
(* Bounds of the model *)

\* request limits 1..MaxLimit are tried beside the configured 30
MaxLimit == 3

-----------------------------------------------------------------------------
(* The configuration: optimization.splitChunks of webpack.prod.config.js *)

MinSizeProd == 20000
MinSizeDemo == 200
EnforceSizeThreshold == 50000
DefaultMaxRequests == 30
MinRemainingSizeProd == 0
PriorityDefaultVendors == -10
PriorityDefault == -20

CacheGroups == {"defaultVendors", "default"}

Priority(g) == IF g = "defaultVendors" THEN PriorityDefaultVendors ELSE PriorityDefault

\* cacheGroups.<g>.name: the chunk the group's modules are bundled into
GroupName(g) == IF g = "defaultVendors" THEN "vendor" ELSE "common"

\* cacheGroups.<g>.chunks: defaultVendors says 'all'; default says 'all', or
\* has no chunks of its own and splitChunks.chunks, 'async', holds for it
GroupChunks(g) == IF g = "defaultVendors" THEN "all" ELSE defaultChunks

\* the cache group that bundles into the chunk named n
GroupOf(n) == CHOOSE g \in CacheGroups : GroupName(g) = n

\* defaultVendors has no minChunks of its own: splitChunks.minChunks, 1
GroupMinChunks(g) == IF g = "default" THEN minChunks ELSE 1

-----------------------------------------------------------------------------
(* The modules and their imports *)

Modules == {"index", "App", "AppCss", "dogImage", "Button", "Dashboard",
            "Dynamic", "react", "entryB"}

\* test: /[\\/]node_modules[\\/]/
InNodeModules(m) == m = "react"

\* the static imports of each module
SyncDeps(m) ==
    CASE m = "index"     -> {"App"}
      [] m = "App"       -> {"react", "AppCss", "dogImage", "Button", "Dashboard"}
                               \cup (IF lazy THEN {} ELSE {"Dynamic"})
      [] m = "Dashboard" -> {"react"}
      [] m = "Button"    -> {"react"}
      [] m = "entryB"    -> {"Button"}
      [] OTHER           -> {}

\* import() is not seen: the module has no dynamic import
AsyncDepsNone(m) == {}

\* the import() calls of each module
AsyncDeps(m) == IF m = "App" /\ lazy THEN {"Dynamic"} ELSE {}

\* what kind of file a module is, by its extension
FileType(m) ==
    CASE m = "AppCss"   -> "css"
      [] m = "dogImage" -> "jpg"
      [] OTHER          -> "js"

\* module.rules: the js/jsx rule, the css rule and, where the configuration
\* has it, the asset/resource rule
Rules == {"js", "css"} \cup (IF assetRule THEN {"asset"} ELSE {})

\* the rule's test matches the module's path
RuleMatches(rule, m) ==
    CASE rule = "js"    -> FileType(m) = "js" /\ ~InNodeModules(m)
      [] rule = "css"   -> FileType(m) = "css"
      [] rule = "asset" -> FileType(m) \in {"png", "svg", "jpg", "jpeg", "gif"}

\* every file is taken for handled, rule or no rule
HandledAlways(m) == TRUE

\* the bundler can parse the module: it is JavaScript, or a rule's loader
\* handles it
Handled(m) == FileType(m) = "js" \/ \E rule \in Rules : RuleMatches(rule, m)

RECURSIVE SyncClosure(_)
SyncClosure(S) ==
    LET n == S \cup UNION {SyncDeps(m) : m \in S}
    IN  IF n = S THEN S ELSE SyncClosure(n)

\* the modules loaded with r: r and everything it imports statically
SyncReach(r) == SyncClosure({r})

RECURSIVE Closure(_)
Closure(S) ==
    LET n == S \cup UNION {SyncDeps(m) \cup AsyncDeps(m) : m \in S}
    IN  IF n = S THEN S ELSE Closure(n)

\* the dependency graph the bundler builds from the entry
GraphModules == Closure(entry)

\* the import() targets of the graph: each makes a chunk of its own
AsyncTargets == UNION {AsyncDeps(m) : m \in GraphModules}

\* the modules of the graph that no loader handles
Unhandled == {m \in GraphModules : ~Handled(m)}

\* a build that makes chunks of the entries only
RootsEntryOnly == entry

\* what is requested on its own: the entries and the import() targets
Roots == entry \cup AsyncTargets

RootIds == {"index", "entryB", "Dynamic"}

ChunkNames == {"main", "entryB", "dynamic-component", "vendor", "common"}

SplitNames == {GroupName(g) : g \in CacheGroups}

\* output.filename '[name].bundle.js'; webpackChunkName: 'dynamic-component'
OwnChunk(r) ==
    CASE r = "index"   -> "main"
      [] r = "entryB"  -> "entryB"
      [] r = "Dynamic" -> "dynamic-component"

ChunkKind(c) == IF c = "dynamic-component" THEN "async" ELSE "initial"

RECURSIVE SumSize(_)
SumSize(S) ==
    IF S = {} THEN 0
    ELSE LET m == CHOOSE x \in S : TRUE IN size[m] + SumSize(S \ {m})

-----------------------------------------------------------------------------
(* DefinePlugin and the constants of AppComponent *)

ApiUrlV1 == "https://api/v1/graphql"
ApiUrlV2 == "https://api/v2/graphql"

\* a piece of code: an identifier, a boolean literal or a string literal
Id(n) == [kind |-> "id", text |-> n]
BoolLit(b) == [kind |-> "bool", text |-> b]
StrLit(t) == [kind |-> "str", text |-> t]

Code == [kind : {"id", "bool", "str"},
         text : {"PRODUCTION", "API_URL", "true", "false", ApiUrlV1, ApiUrlV2}]

\* if (PRODUCTION) console.log('API_URL', API_URL)
\* else console.log('API_URL', 'https://api/v1/graphql')
AppSource ==
    [cond |-> Id("PRODUCTION"), then |-> Id("API_URL"), else |-> StrLit(ApiUrlV1)]

\* the identifiers the configuration's DefinePlugin defines
Defined == IF define = "none" THEN {} ELSE {"PRODUCTION", "API_URL"}

\* PRODUCTION: JSON.stringify(true), API_URL: JSON.stringify('https://api/v2/graphql')
Definition(n) ==
    IF n = "PRODUCTION" THEN BoolLit(define) ELSE StrLit(ApiUrlV2)

\* "Webpack replaces every occurrence of API_URL in our source code with the
\* string value"
Replace(c) ==
    IF c.kind = "id" /\ c.text \in Defined THEN Definition(c.text) ELSE c

\* the statement as bundled
Compiled(src) == [k \in DOMAIN src |-> Replace(src[k])]

\* the identifiers left in a statement
Unreplaced(code) ==
    {code[k].text : k \in {j \in DOMAIN code : code[j].kind = "id"}}

NotDefined(n) == IF n = "PRODUCTION" THEN "ReferenceError: PRODUCTION is not defined"
                 ELSE "ReferenceError: API_URL is not defined"

\* what evaluating the statement logs, or the error it throws
Logged(code) ==
    IF code.cond.kind = "id" THEN NotDefined(code.cond.text)
    ELSE LET e == IF code.cond.text \notin {"false", ""} THEN code.then ELSE code.else
         IN  IF e.kind = "id" THEN NotDefined(e.text) ELSE e.text

-----------------------------------------------------------------------------
(* optimization.splitChunks *)

\* the cache groups a module can belong to; default has no test
Test(g, m) == IF g = "defaultVendors" THEN InNodeModules(m) ELSE TRUE

Matching(m) == {g \in CacheGroups : Test(g, m)}

\* "The optimization will prefer the cache group with a higher priority"
Select(m) ==
    CHOOSE g \in Matching(m) : \A h \in Matching(m) : Priority(h) <= Priority(g)

\* every chunk is taken for a chunk of the group's scope
InScopeAny(g, c) == TRUE

\* chunks: 'all' | 'async' | 'initial'
InScope(g, c) ==
    \/ GroupChunks(g) = "all"
    \/ GroupChunks(g) = ChunkKind(c)

\* the chunks of the group's scope that hold m
ChunksWith(g, m) ==
    {c \in plan \ SplitNames : InScope(g, c) /\ m \in chunks[c]}

\* minChunks left out: one chunk holding the module is enough
SharedEnoughOnce(g, m) == Cardinality(ChunksWith(g, m)) >= 1

\* minChunks: "the minimum number of chunks that must share a module before
\* it's split"
SharedEnough(g, m) == Cardinality(ChunksWith(g, m)) >= GroupMinChunks(g)

\* the modules the group would bundle into its chunk
Candidate(g) ==
    {m \in Modules : g \in Matching(m) /\ Select(m) = g /\ SharedEnough(g, m)}

\* enforceSizeThreshold left out: no chunk is ever forced
EnforcedNever(g) == FALSE

\* every chunk is taken for one that reached enforceSizeThreshold
EnforcedAlways(g) == TRUE

\* "size threshold at which splitting is enforced and other restrictions
\* are ignored"
Enforced(g) == SumSize(Candidate(g)) >= EnforceSizeThreshold

\* minSize left out: a chunk of any size is generated
SizeOkAny(g) == TRUE

\* "a minimum size, in bytes, for a chunk to be generated"
SizeOk(g) == SumSize(Candidate(g)) >= minSize

\* the entries and import() targets whose chunk holds a module of S
Users(S) == {r \in Roots : chunks[OwnChunk(r)] \cap S # {}}

\* those of them whose chunk the group named n takes modules out of
UsersInScope(S, n) == {r \in Users(S) : InScope(GroupOf(n), OwnChunk(r))}

MaxRequests(r) == IF r \in entry THEN maxInitialRequests ELSE maxAsyncRequests

\* the request limits left out
RequestsOkAny(g) == TRUE

\* "Maximum number of parallel requests ... would be lower or equal to"
RequestsOk(g) ==
    \A r \in UsersInScope(Candidate(g), GroupName(g)) :
        Cardinality(loads[r]) + 1 <= MaxRequests(r)

\* the chunks the group's modules would be taken out of
Losing(g) ==
    {c \in plan \ SplitNames : InScope(g, c) /\ chunks[c] \cap Candidate(g) # {}}

\* minRemainingSize left out: a split may leave a chunk of any size
RemainingOkAny(g) == TRUE

\* "Ensures that the size of the remaining chunk after splitting doesn't
\* fall below the specified value"
RemainingOk(g) ==
    \A c \in Losing(g) : SumSize(chunks[c] \ Candidate(g)) >= minRemainingSize

\* enforceSizeThreshold does not lift the request limits
SplitAllowedCapped(g) ==
    /\ Candidate(g) # {}
    /\ SizeOk(g)
    /\ RequestsOk(g)
    /\ RemainingOk(g)

\* the conditions under which the group's chunk is generated
SplitAllowed(g) ==
    /\ Candidate(g) # {}
    /\ \/ Enforced(g)
       \/ SizeOk(g) /\ RequestsOk(g) /\ RemainingOk(g)

\* "priority: -20 ensures it is considered after the defaultVendors group"
NextGroup ==
    CHOOSE g \in CacheGroups \ considered :
        \A h \in CacheGroups \ considered : Priority(h) <= Priority(g)

\* the modules are copied into the new chunk and left where they were
MovedCopying(S, n) ==
    [c \in ChunkNames |-> IF c = n THEN S ELSE chunks[c]]

\* a module shared by several chunks is taken out of each and put nowhere
MovedLosing(S, n) ==
    [c \in ChunkNames |->
        IF c = n
        THEN {m \in S : Cardinality({d \in ChunkNames : m \in chunks[d]}) = 1}
        ELSE chunks[c] \ S]

\* the chunks once the modules S are moved into the chunk named n, out of the
\* chunks of its group's scope
Moved(S, n) ==
    [c \in ChunkNames |->
        IF c = n THEN S
        ELSE IF InScope(GroupOf(n), c) THEN chunks[c] \ S
        ELSE chunks[c]]

\* the request lists are left as they were
RequestsSame(S, n) == loads

\* the request lists once the modules S are moved into the chunk named n
Requests(S, n) ==
    [r \in RootIds |->
        IF r \in UsersInScope(S, n) THEN loads[r] \cup {n} ELSE loads[r]]

-----------------------------------------------------------------------------
(* The build *)

Sizes == {100, 500, 25000, 60000}

Limits == (1..MaxLimit) \cup {DefaultMaxRequests}

\* the configurations tried: every request limit with the final
\* configuration's minRemainingSize, chunks and DefinePlugin, and the other
\* values of these three with the configured request limits; the development
\* configuration has neither the asset rule nor DefinePlugin
Tried ==
    /\ lazy \/ maxAsyncRequests = DefaultMaxRequests
    /\ (minRemainingSize # MinRemainingSizeProd \/ defaultChunks # "all" \/ define # "true")
          => (maxInitialRequests = DefaultMaxRequests /\ maxAsyncRequests = DefaultMaxRequests)
    /\ define # "true" => (minRemainingSize = MinRemainingSizeProd /\ defaultChunks = "all")
    /\ ~assetRule => define = "none"

Init ==
    /\ entry \in {{"index"}, {"index", "entryB"}}
    /\ lazy \in BOOLEAN
    /\ \E r \in Sizes, b \in Sizes, d \in {300, 25000} :
          size = [m \in Modules |->
                    CASE m = "react"   -> r
                      [] m = "Button"  -> b
                      [] m = "Dynamic" -> d
                      [] OTHER         -> 300]
    /\ minSize \in {MinSizeDemo, MinSizeProd}
    \* minRemainingSize: 0 as configured, or left out: "Matches minSize"
    /\ minRemainingSize \in {MinRemainingSizeProd, minSize}
    /\ minChunks \in {1, 2}
    /\ defaultChunks \in {"all", "async"}
    /\ maxInitialRequests \in Limits
    /\ maxAsyncRequests \in {1, DefaultMaxRequests}
    /\ assetRule \in BOOLEAN
    /\ define \in {"true", "false", "none"}
    /\ Tried
    /\ phase = "config"
    /\ chunks = [c \in ChunkNames |-> {}]
    /\ plan = {}
    /\ loads = [r \in RootIds |-> {}]
    /\ considered = {}
    /\ forced = {}
    /\ failed = {}
    /\ appCode = AppSource
    /\ console = <<>>
    /\ result = "none"

\* the chunks before splitChunks: one per entry and one per import()
BuildGraph ==
    /\ phase = "config"
    /\ Unhandled = {}
    /\ phase' = "split"
    /\ chunks' = [c \in ChunkNames |->
                    IF \E r \in Roots : OwnChunk(r) = c
                    THEN SyncReach(CHOOSE r \in Roots : OwnChunk(r) = c)
                    ELSE {}]
    /\ plan' = {OwnChunk(r) : r \in Roots}
    /\ loads' = [r \in RootIds |-> IF r \in Roots THEN {OwnChunk(r)} ELSE {}]
    /\ appCode' = Compiled(appCode)
    /\ UNCHANGED <<inputs, considered, forced, failed, console, result>>

\* "Module parse failed": a module of the graph has no loader; the build
\* compiles with an error
ParseError ==
    /\ phase = "config"
    /\ Unhandled # {}
    /\ phase' = "failed"
    /\ failed' = Unhandled
    /\ result' = "error"
    /\ UNCHANGED <<inputs, chunks, plan, loads, considered, forced, appCode, console>>

\* the next cache group's modules are bundled into the group's chunk
SplitChunk ==
    /\ phase = "split"
    /\ considered # CacheGroups
    /\ LET g == NextGroup
           S == Candidate(g)
       IN  /\ SplitAllowed(g)
           /\ chunks' = Moved(S, GroupName(g))
           /\ plan' = plan \cup {GroupName(g)}
           /\ loads' = Requests(S, GroupName(g))
           /\ forced' = IF Enforced(g) THEN forced \cup {GroupName(g)} ELSE forced
           /\ considered' = considered \cup {g}
    /\ UNCHANGED <<inputs, phase, failed, appCode, console, result>>

\* the next cache group's chunk is not generated: "no optimization will happen"
KeepModules ==
    /\ phase = "split"
    /\ considered # CacheGroups
    /\ ~SplitAllowed(NextGroup)
    /\ considered' = considered \cup {NextGroup}
    /\ UNCHANGED <<inputs, phase, chunks, plan, loads, forced, failed, appCode,
                   console, result>>

\* the bundles are written and the configuration is set back to its default
EmitResetting ==
    /\ phase = "split"
    /\ considered = CacheGroups
    /\ phase' = "done"
    /\ result' = "plan"
    /\ minSize' = MinSizeProd
    /\ UNCHANGED <<entry, lazy, size, minRemainingSize, minChunks, defaultChunks,
                   maxInitialRequests, maxAsyncRequests, assetRule, define,
                   chunks, plan, loads, considered, forced, failed, appCode,
                   console>>

\* the bundles are written to dist
Emit ==
    /\ phase = "split"
    /\ considered = CacheGroups
    /\ phase' = "done"
    /\ result' = "plan"
    /\ UNCHANGED <<inputs, chunks, plan, loads, considered, forced, failed,
                   appCode, console>>

\* the emitted bundle runs: AppComponent is rendered and logs the API URL
Render ==
    /\ phase = "done"
    /\ "App" \in UNION {chunks[c] : c \in plan}
    /\ console = <<>>
    /\ console' = <<Logged(appCode)>>
    /\ UNCHANGED <<inputs, phase, chunks, plan, loads, considered, forced, failed,
                   appCode, result>>

Next ==
    \/ BuildGraph
    \/ ParseError
    \/ SplitChunk
    \/ KeepModules
    \/ Emit
    \/ Render

Spec == Init /\ [][Next]_vars

TypeOK ==
    /\ phase \in {"config", "split", "done", "failed"}
    /\ minRemainingSize \in {MinRemainingSizeProd, minSize}
    /\ defaultChunks \in {"all", "async"}
    /\ plan \subseteq ChunkNames
    /\ chunks \in [ChunkNames -> SUBSET Modules]
    /\ loads \in [RootIds -> SUBSET ChunkNames]
    /\ considered \subseteq CacheGroups
    /\ forced \subseteq SplitNames
    /\ failed \subseteq Modules
    /\ define \in {"true", "false", "none"}
    /\ appCode \in [{"cond", "then", "else"} -> Code]
    /\ console \in Seq({ApiUrlV1, ApiUrlV2, NotDefined("PRODUCTION"), NotDefined("API_URL")})
    /\ result \in {"none", "plan", "error"}

-----------------------------------------------------------------------------
(* What the claims speak of, stated on the graph and not on the chunks *)

\* the entries and import() targets that load m
UsersOf(m) == {r \in Roots : m \in SyncReach(r)}

\* the chunks of the plan that hold m
ChunksOf(m) == {c \in plan : m \in chunks[c]}

\* those of them whose chunk is of the group's scope
ScopeUsersOf(g, m) ==
    {r \in UsersOf(m) :
        GroupChunks(g) = "all" \/ GroupChunks(g) = ChunkKind(OwnChunk(r))}

\* the modules a cache group is to bundle, from the graph alone
GroupModules(g) ==
    {m \in GraphModules :
        /\ (g = "defaultVendors") = InNodeModules(m)
        /\ Cardinality(ScopeUsersOf(g, m))
              >= (IF g = "default" THEN minChunks ELSE 1)}

GroupSize(g) == SumSize(GroupModules(g))

\* the group's chunk is neither too small nor forced
TooSmall(g) == GroupSize(g) < minSize /\ GroupSize(g) < EnforceSizeThreshold

\* the entries and import() targets of the group's scope that load a module
\* of the group
GroupUsers(g) ==
    {r \in Roots : \E m \in GroupModules(g) : r \in ScopeUsersOf(g, m)}

\* what r's own chunk is left with once the group g and the groups of a
\* higher priority have taken their modules
Rest(g, r) ==
    SyncReach(r) \ UNION {GroupModules(h) :
                            h \in {k \in CacheGroups : Priority(k) >= Priority(g)}}

\* splitting the group leaves no chunk below minRemainingSize
RemainingFits(g) ==
    \A r \in GroupUsers(g) : SumSize(Rest(g, r)) >= minRemainingSize

\* r requests more chunks than its limit allows
OverLimit(r) == Cardinality(loads[r]) > MaxRequests(r)

-----------------------------------------------------------------------------
(* C1 *)

\* C1: Completeness. Once the chunks are built, and after every cache group
\* considered (split or not), every module of the graph is a member of at
\* least one chunk of the plan.
C1_Completeness ==
    phase \in {"split", "done"} =>
        \A m \in GraphModules : ChunksOf(m) # {}

\* a finished plan with both split chunks, one of them taking a module that
\* two entry chunks shared
C1_Witness ==
    /\ phase = "done"
    /\ {"vendor", "common"} \subseteq plan
    /\ entry = {"index", "entryB"}
    /\ "Button" \in chunks["common"]

-----------------------------------------------------------------------------
(* C2 *)

\* C2 as stated: in the final plan every module is a member of exactly one
\* chunk.
C2_NoDuplication ==
    phase = "done" =>
        \A m \in GraphModules : Cardinality(ChunksOf(m)) = 1

\* C2 amended: in the final plan every module is a member of exactly one
\* chunk, except a module that several entries or import() targets load and
\* that its cache group did not take, because the group's chunk was not
\* generated or because too few chunks of the group's scope hold the module:
\* it stays in the chunk of each of them, and in no split chunk.
C2_NoDuplicationUnlessKept ==
    phase = "done" =>
        \A m \in GraphModules :
            \/ Cardinality(ChunksOf(m)) = 1
            \/ /\ Cardinality(UsersOf(m)) > 1
               /\ ChunksOf(m) = {OwnChunk(r) : r \in UsersOf(m)}
               /\ \/ GroupName(Select(m)) \notin plan
                  \/ m \notin GroupModules(Select(m))

\* a module two entries import ends in the common chunk alone
C2_Witness ==
    /\ phase = "done"
    /\ entry = {"index", "entryB"}
    /\ ChunksOf("Button") = {"common"}

-----------------------------------------------------------------------------
(* C5 *)

\* C5: Size filtering. A cache group's chunk whose size is below minSize and
\* below enforceSizeThreshold is not generated, and each of its modules stays
\* in every chunk that held it.
C5_SizeFiltering ==
    \A g \in considered :
        (GroupModules(g) # {} /\ TooSmall(g)) =>
            /\ GroupName(g) \notin plan
            /\ \A r \in Roots :
                  chunks[OwnChunk(r)] \cap GroupModules(g)
                      = SyncReach(r) \cap GroupModules(g)

\* a 500 byte vendor chunk under minSize = 20000 is not in the finished plan
C5_Witness ==
    /\ phase = "done"
    /\ minSize = 20000
    /\ GroupSize("defaultVendors") = 500
    /\ "vendor" \notin plan
    /\ "react" \in chunks["main"]

-----------------------------------------------------------------------------
(* C6 *)

\* C6 as stated: in every plan returned each entry requests at most
\* maxInitialRequests chunks and each import() at most maxAsyncRequests.
C6_RequestCap ==
    phase = "done" => \A r \in Roots : ~OverLimit(r)

\* the three chunks of the example: main, vendor and common, each big enough
\* and leaving enough, none forced, all for the entry index
C6_ThreeEligible ==
    \A g \in CacheGroups :
        /\ "index" \in GroupUsers(g)
        /\ GroupSize(g) >= minSize
        /\ GroupSize(g) < EnforceSizeThreshold
        /\ RemainingFits(g)

\* C6 amended: each entry requests at most maxInitialRequests chunks and each
\* import() at most maxAsyncRequests, not counting the chunks that reached
\* enforceSizeThreshold, which are split whatever the limits; and with
\* maxInitialRequests = 2 and three eligible initial chunks for one entry,
\* none of them forced, exactly 2 remain for that entry.
C6_RequestCapUnlessForced ==
    /\ \A r \in Roots :
          Cardinality(loads[r]) <= MaxRequests(r) + Cardinality(loads[r] \cap forced)
    /\ (phase = "done" /\ maxInitialRequests = 2 /\ C6_ThreeEligible) =>
          Cardinality(loads["index"]) = 2

\* the example: three eligible chunks under maxInitialRequests = 2, and the
\* vendor chunk, of the higher priority, is the one split out
C6_Witness ==
    /\ phase = "done"
    /\ maxInitialRequests = 2
    /\ C6_ThreeEligible
    /\ loads["index"] = {"main", "vendor"}

-----------------------------------------------------------------------------
(* C8 *)

\* the modules no cache group with a test matches
Unmatched == {m \in GraphModules : ~InNodeModules(m)}

\* C8 as stated: an unmatched module is in the common chunk if and only if at
\* least minChunks entries or import() targets load it.
C8_CommonIffShared ==
    phase = "done" =>
        \A m \in Unmatched :
            (m \in chunks["common"]) <=> (Cardinality(UsersOf(m)) >= minChunks)

\* the common chunk is generated: it is forced, or it is big enough, every
\* entry and import() that loads one of its modules stays in its limit and
\* the chunk of each is left with at least minRemainingSize
C8_CommonGenerated ==
    /\ GroupModules("default") # {}
    /\ \/ GroupSize("default") >= EnforceSizeThreshold
       \/ /\ GroupSize("default") >= minSize
          /\ \A r \in GroupUsers("default") :
                /\ Cardinality(loads[r] \ {"common"}) + 1 <= MaxRequests(r)
                /\ SumSize((SyncReach(r) \ chunks["vendor"]) \ GroupModules("default"))
                      >= minRemainingSize

\* C8 amended: an unmatched module is in the common chunk if and only if at
\* least minChunks entries or import() targets of the group's scope load it
\* and the common chunk is generated (big enough, within the request limits
\* and leaving at least minRemainingSize, or forced); then it is in none of
\* their own chunks, and otherwise it stays in the chunk of each entry or
\* import() that loads it.
C8_CommonIffSharedAndGenerated ==
    phase = "done" =>
        LET generated == C8_CommonGenerated
            shared    == GroupModules("default")
        IN  \A m \in Unmatched :
            /\ (m \in chunks["common"]) <=> (m \in shared /\ generated)
            /\ ("common" \in plan) <=> generated
            /\ IF m \in chunks["common"]
               THEN \A r \in Roots : m \notin chunks[OwnChunk(r)]
               ELSE \A r \in UsersOf(m) : m \in chunks[OwnChunk(r)]

\* two entries import Button; under minChunks = 2 it is in common and in
\* neither entry's chunk, while a module of one entry alone stays there
C8_Witness ==
    /\ phase = "done"
    /\ entry = {"index", "entryB"}
    /\ minChunks = 2
    /\ "Button" \in chunks["common"]
    /\ "Button" \notin chunks["main"] \cup chunks["entryB"]
    /\ "App" \in chunks["main"]

-----------------------------------------------------------------------------
(* C9 *)

\* an entry or import() over its limit by forced chunks alone: nothing it
\* requests beside its own chunk could be merged back
C9_ForcedOverLimit ==
    \E r \in Roots :
        /\ OverLimit(r)
        /\ loads[r] \ {OwnChunk(r)} \subseteq forced

\* C9 as stated: when a forced chunk makes an entry exceed its limit and no
\* merge remains, the build ends with UnsatisfiableConstraintError and returns
\* no plan.
C9_UnsatisfiableIsError ==
    (phase = "done" /\ C9_ForcedOverLimit) =>
        result = "UnsatisfiableConstraintError"

\* C9 amended: a cache group's chunk that reaches enforceSizeThreshold is
\* split out whatever maxInitialRequests and maxAsyncRequests are, every
\* entry and import() that loads its modules requests it, and the build
\* returns the plan, also when that puts an entry over its limit.
C9_ForcedIsSplit ==
    /\ \A g \in considered :
          (GroupModules(g) # {} /\ GroupSize(g) >= EnforceSizeThreshold) =>
              /\ GroupName(g) \in plan \cap forced
              /\ \A r \in GroupUsers(g) : GroupName(g) \in loads[r]
    /\ phase = "done" => result = "plan"

\* a finished build whose entry is over maxInitialRequests by a forced chunk
C9_Witness ==
    /\ phase = "done"
    /\ result = "plan"
    /\ OverLimit("index")
    /\ loads["index"] \ {"main"} \subseteq forced
    /\ "vendor" \in forced

-----------------------------------------------------------------------------
(* C12 *)

\* m imports n, statically or with import()
C12_Imports(m, n) == n \in SyncDeps(m) \cup AsyncDeps(m)

\* the modules at most k imports away from an entry
RECURSIVE C12_Within(_)
C12_Within(k) ==
    IF k = 0 THEN entry
    ELSE LET W == C12_Within(k - 1)
         IN  W \cup {n \in Modules : \E m \in W : C12_Imports(m, n)}

C12_Reachable == C12_Within(Cardinality(Modules))

\* the modules the built chunks hold
C12_Built == UNION {chunks[c] : c \in plan}

\* C12: Graph closure. The graph the build makes of the entries holds exactly
\* the modules reachable from the entries through static imports and
\* import() calls, and with every module every module it imports.
C12_GraphClosure ==
    phase \in {"split", "done"} =>
        /\ C12_Built = C12_Reachable
        /\ \A m \in C12_Built : \A n \in Modules : C12_Imports(m, n) => n \in C12_Built

\* a built graph that holds the import() target and leaves out the module
\* of an entry that is not configured
C12_Witness ==
    /\ phase = "split"
    /\ lazy
    /\ "Dynamic" \in C12_Built
    /\ entry = {"index"}
    /\ "entryB" \notin C12_Built

-----------------------------------------------------------------------------
(* C13 *)

\* C13: Forced split. A cache group's chunk whose size is at least
\* enforceSizeThreshold is made of exactly the group's modules once the group
\* is considered and keeps them to the end of the build, whatever
\* maxInitialRequests and maxAsyncRequests are, and no later step changes or
\* removes a forced chunk.
C13_ForcedKept ==
    /\ [](\A g \in considered :
            (GroupModules(g) # {} /\ GroupSize(g) >= EnforceSizeThreshold) =>
                chunks[GroupName(g)] = GroupModules(g))
    /\ [][\A n \in forced :
            n \in forced' /\ n \in plan' /\ chunks'[n] = chunks[n]]_vars

\* the vendor chunk was forced, then the common chunk was considered under
\* request limits of 1, and the build is done with the vendor chunk whole
C13_Witness ==
    /\ phase = "done"
    /\ maxInitialRequests = 1
    /\ maxAsyncRequests = 1
    /\ "vendor" \in forced
    /\ chunks["vendor"] = {"react"}
    /\ "common" \notin plan

-----------------------------------------------------------------------------
(* C18 *)

\* C18 as stated: the module imported with import() is in its own chunk
\* dynamic-component, not in the importing chunk and not in common.
C18_DynamicOwnChunk ==
    (phase = "done" /\ lazy) =>
        /\ "Dynamic" \in chunks["dynamic-component"]
        /\ "Dynamic" \notin chunks["main"]
        /\ "Dynamic" \notin chunks["common"]

\* C18 amended: the module imported only with import() is the target of an
\* async edge and gets the async chunk dynamic-component, and it is never in
\* the importing initial chunk; it stays in dynamic-component exactly when the
\* common chunk does not take it, which is the case under minSize = 20000
\* when the common chunk would be smaller than that; when the common chunk is
\* generated with minChunks = 1 the module is moved into common.
C18_DynamicOwnChunkUnlessCommon ==
    (phase \in {"split", "done"} /\ lazy) =>
        /\ "Dynamic" \in AsyncDeps("App") /\ "Dynamic" \notin SyncReach("index")
        /\ "dynamic-component" \in plan
        /\ ChunkKind("dynamic-component") = "async"
        /\ "Dynamic" \notin chunks["main"]
        /\ ("Dynamic" \in chunks["dynamic-component"]) <=> ("Dynamic" \notin chunks["common"])
        /\ phase = "done" =>
              /\ ("Dynamic" \in chunks["common"]) <=> (minChunks = 1 /\ "common" \in plan)
              /\ (minSize = 20000 /\ GroupSize("default") < minSize) =>
                    "Dynamic" \in chunks["dynamic-component"]

\* the README's build: minSize = 20000, every module small, and Dynamic is
\* alone in dynamic-component
C18_Witness ==
    /\ phase = "done"
    /\ lazy
    /\ minSize = 20000
    /\ size["Dynamic"] = 300
    /\ chunks["dynamic-component"] = {"Dynamic"}
    /\ "common" \notin plan

-----------------------------------------------------------------------------
(* C19 *)

\* C19: Development build succeeds. With the rules of webpack.dev.config.js
\* (js/jsx and css, no asset rule) the build of the entry ends without error
\* and emits main.
C19_DevBuildSucceeds ==
    ~assetRule =>
        /\ phase # "failed"
        /\ result # "error"
        /\ phase = "done" => "main" \in plan

-----------------------------------------------------------------------------
(* C20 *)

\* C20: Missing loader is an error. When a module of the graph is not
\* JavaScript and no rule of module.rules matches it (the imported jpg under
\* the js/jsx and css rules alone), the build ends with a parse error for
\* that module and bundles nothing; with the asset/resource rule added the
\* same import builds and the image is in the entry's chunk.
C20_MissingLoaderIsError ==
    /\ (phase # "config" /\ ~assetRule) =>
          /\ phase = "failed"
          /\ result = "error"
          /\ failed = {"dogImage"}
          /\ plan = {}
    /\ (phase # "config" /\ assetRule) =>
          /\ phase # "failed"
          /\ failed = {}
          /\ "dogImage" \in chunks["main"] \cup chunks["common"]

\* the build without the asset rule has reported the parse error of the jpg
C20_Witness ==
    /\ phase = "failed"
    /\ ~assetRule
    /\ "dogImage" \in failed
    /\ "dogImage" \in SyncDeps("App")

-----------------------------------------------------------------------------
(* C21 *)

\* the chunks a step takes modules out of
C21_Shrunk == {c \in plan : chunks'[c] # chunks[c]}

\* C21 as stated: whenever modules are split out of a chunk into a new chunk,
\* the chunk that remains is not below minRemainingSize.
C21_RemainingSize ==
    [][\A c \in C21_Shrunk : SumSize(chunks'[c]) >= minRemainingSize]_vars

\* C21 amended: whenever modules are split out of a chunk into a new chunk
\* that has not reached enforceSizeThreshold, the chunk that remains is not
\* below minRemainingSize; a chunk that reached enforceSizeThreshold is split
\* out whatever it leaves.
C21_RemainingSizeUnlessForced ==
    [][\A n \in plan' \ plan :
          n \notin forced' =>
              \A c \in C21_Shrunk : SumSize(chunks'[c]) >= minRemainingSize]_vars

\* minRemainingSize is left out and matches minSize: the vendor chunk was
\* split and left main big enough, the common chunk would have left nothing
\* and was not generated
C21_Witness ==
    /\ phase = "done"
    /\ minRemainingSize = MinSizeDemo
    /\ "vendor" \in plan \ forced
    /\ SumSize(chunks["main"]) >= minRemainingSize
    /\ GroupSize("default") >= minSize
    /\ GroupSize("default") < EnforceSizeThreshold
    /\ "common" \notin plan

-----------------------------------------------------------------------------
(* C22 *)

-----------------------------------------------------------------------------
(* C26 *)

\* C26: Inputs are not modified. No step of a build, whether it ends with
\* the bundles or with an error, changes the entries, the imports, the sizes
\* of the modules, the cache groups' settings or the thresholds.
C26_InputsUnchanged == [][inputs' = inputs]_vars

\* a build that split both chunks and ended, with the inputs it started with
C26_Witness ==
    /\ phase = "done"
    /\ result = "plan"
    /\ {"vendor", "common"} \subseteq plan
    /\ minSize = MinSizeDemo
    /\ defaultChunks = "all"

-----------------------------------------------------------------------------
(* C27 *)

C27_DefinedConstantsReplaced ==
    define # "none" =>
        /\ phase \in {"split", "done"} => Unreplaced(appCode) = {}
        /\ console # <<>> =>
              console = <<IF define = "true" THEN ApiUrlV2 ELSE ApiUrlV1>>

-----------------------------------------------------------------------------
(* C28 *)

-----------------------------------------------------------------------------
(* C29 *)

-----------------------------------------------------------------------------
(* C30 *)

\* the modules of the chunks in a list of chunks
C30_Held(L) == UNION {chunks[c] : c \in L}

\* the entries whose modules import t with import()
C30_Triggers(t) ==
    {r \in entry : \E m \in SyncReach(r) : t \in AsyncDeps(m)}

\* C30: Load lists cover what is needed. Once the chunks are built, and in
\* the emitted plan, the chunks an entry requests hold every module the
\* entry reaches through static imports; the chunks an import() requests,
\* with the chunks the entry that triggers it has requested, hold every
\* module the import() target reaches through static imports; and every
\* chunk requested is a chunk of the plan.
C30_LoadsCover ==
    phase \in {"split", "done"} =>
        /\ \A r \in entry : SyncReach(r) \subseteq C30_Held(loads[r])
        /\ \A t \in AsyncTargets : \A r \in C30_Triggers(t) :
              SyncReach(t) \subseteq C30_Held(loads[t] \cup loads[r])
        /\ \A r \in Roots : loads[r] # {} /\ loads[r] \subseteq plan

\* the import() target was moved into the common chunk and its import()
\* requests common; the entry requests main, vendor and common
C30_Witness ==
    /\ phase = "done"
    /\ lazy
    /\ "Dynamic" \in chunks["common"]
    /\ "common" \in loads["Dynamic"]
    /\ loads["index"] = {"main", "vendor", "common"}

====
